---- MODULE Spec2Model ----
(***************************************************************************)
(* BLE-broadcast-REST, capture.py: the AD-structure encoder                *)
(* (parse_advertisement_data), the deduplicating capture store             *)
(* (scan_and_capture / detection_callback), the command listing            *)
(* (get_hci_commands) and the replay executor (replay_packet).             *)
(*                                                                         *)
(* Representation.  Python str values that are only compared (addresses,   *)
(* timestamps) are TLA+ strings.  A device name is a sequence of Unicode   *)
(* code points, wrapped as an optional: <<>> is None, <<s>> is the str s.  *)
(* UUID strings and the command string are sequences of one-character      *)
(* strings.  bytes / lists of ints are sequences of 0..255.  A Python list *)
(* index i (0-based) addresses element i + 1 of the sequence.              *)
(***************************************************************************)
EXTENDS Integers, Sequences, FiniteSets, TLC

VARIABLES
    captured_packets,   \* self.captured_packets
    scanning,           \* the BleakScanner of the running session is started
    pc,                 \* position of the scan_and_capture coroutine
    target_names,       \* argument of the running session: <<>> is None, <<list>> a list
    target_addresses,   \* argument of the running session: <<>> is None, <<list>> a list
    result,             \* what the caller of scan_and_capture got from the last call
    last,               \* observable effect of the most recent operation
    obs,                \* the observation handed to the encoder (encoder specification)
    packet_info         \* <<>> or <<p>>: p returned by the encoder (encoder specification)

vars == <<captured_packets, scanning, pc, target_names, target_addresses,
          result, last, obs, packet_info>>

----------------------------------------------------------------------------
(* Bounds of the model *)

\* longest device name, in code points, of the encoder specification
MaxNameLen == 30
\* most entries of service_uuids of the encoder specification
MaxUuids == 4
\* most entries the store is let grow to
MaxPackets == 3

----------------------------------------------------------------------------
(* Sequence helpers *)

Min(a, b) == IF a < b THEN a ELSE b

\* s[:n] for n >= 0
Take(s, n) == SubSeq(s, 1, Min(n, Len(s)))

\* [x] * n
Rep(x, n) == [i \in 1..(IF n > 0 THEN n ELSE 0) |-> x]

RECURSIVE Flatten(_)
Flatten(ss) == IF ss = <<>> THEN <<>> ELSE Head(ss) \o Flatten(Tail(ss))

\* index of the first element equal to c, 0 when there is none
RECURSIVE IndexOf(_, _, _)
IndexOf(s, c, i) ==
    IF i > Len(s) THEN 0
    ELSE IF s[i] = c THEN i
    ELSE IndexOf(s, c, i + 1)

----------------------------------------------------------------------------
(* str.encode('utf-8') *)

utf8_char(cp) ==
    IF cp < 128 THEN <<cp>>
    ELSE IF cp < 2048 THEN <<192 + (cp \div 64), 128 + (cp % 64)>>
    ELSE IF cp < 65536 THEN
        <<224 + (cp \div 4096), 128 + ((cp \div 64) % 64), 128 + (cp % 64)>>
    ELSE
        <<240 + (cp \div 262144), 128 + ((cp \div 4096) % 64),
          128 + ((cp \div 64) % 64), 128 + (cp % 64)>>

utf8_encode(s) == Flatten([i \in 1..Len(s) |-> utf8_char(s[i])])

----------------------------------------------------------------------------
(* int(s, 16): the digits, with an optional sign and an optional 0x prefix. *)
(* The result is <<v>>, or <<>> where Python raises ValueError.             *)

HexChars == <<"0","1","2","3","4","5","6","7","8","9","a","b","c","d","e","f">>
HexUpper == <<"0","1","2","3","4","5","6","7","8","9","A","B","C","D","E","F">>

digit_value(c) ==
    IF IndexOf(HexChars, c, 1) > 0 THEN IndexOf(HexChars, c, 1) - 1
    ELSE IF IndexOf(HexUpper, c, 1) > 0 THEN IndexOf(HexUpper, c, 1) - 1
    ELSE -1

RECURSIVE hex_digits_value(_, _)
hex_digits_value(s, acc) ==
    IF s = <<>> THEN acc
    ELSE IF digit_value(Head(s)) < 0 THEN -1
    ELSE hex_digits_value(Tail(s), acc * 16 + digit_value(Head(s)))

int16(s) ==
    LET neg  == s # <<>> /\ Head(s) = "-"
        s1   == IF s # <<>> /\ Head(s) \in {"-", "+"} THEN Tail(s) ELSE s
        s2   == IF Len(s1) >= 2 /\ s1[1] = "0" /\ s1[2] \in {"x", "X"}
                THEN SubSeq(s1, 3, Len(s1)) ELSE s1
        v    == IF s2 = <<>> THEN -1 ELSE hex_digits_value(s2, 0)
    IN  IF v < 0 THEN <<>>
        ELSE IF neg THEN <<0 - v>> ELSE <<v>>

\* x & 0xFFFF on Python's unbounded two's-complement integers
mask16(x) == x % 65536

\* uuid_str.split('-')[0]
first_group(s) ==
    IF IndexOf(s, "-", 1) = 0 THEN s ELSE SubSeq(s, 1, IndexOf(s, "-", 1) - 1)

\* struct.pack('<H', v) for 0 <= v <= 65535
pack_H(v) == <<v % 256, v \div 256>>

----------------------------------------------------------------------------
(* parse_advertisement_data: the AD structure encoder *)

\* 'Unknown'
Unknown == <<85, 110, 107, 110, 111, 119, 110>>

\* bool(device.name): None and '' are falsy
name_truthy(name) == name # <<>> /\ name[1] # <<>>

\* lines 29-34: the Complete Local Name element
name_element(device) ==
    IF name_truthy(device.name) THEN
        LET name_bytes == Take(utf8_encode(device.name[1]), 29)
        IN  IF Len(name_bytes) > 0
            THEN <<Len(name_bytes) + 1, 9>> \o name_bytes
            ELSE <<>>
    ELSE <<>>

\* lines 39-51: one entry of service_uuids; a ValueError is swallowed
uuid_element(uuid_str) ==
    LET v == IF Len(uuid_str) = 36 THEN int16(first_group(uuid_str))
             ELSE int16(uuid_str)
    IN  IF v = <<>> THEN <<>>
        ELSE <<3, 3>> \o pack_H(mask16(v[1]))

\* lines 56-65: one item of service_data; a ValueError is swallowed
service_data_element(uuid_str, data) ==
    LET v == int16(first_group(uuid_str))
        service_data_len == 2 + Len(data) + 1
    IN  IF v = <<>> THEN <<>>
        ELSE IF service_data_len <= 31
             THEN <<service_data_len, 22>> \o pack_H(mask16(v[1])) \o data
             ELSE <<>>

\* lines 69-75: one item of manufacturer_data
manufacturer_element(company_id, data) ==
    LET manu_data_len == 2 + Len(data) + 1
    IN  IF manu_data_len <= 31
        THEN <<manu_data_len, 255>> \o pack_H(company_id) \o data
        ELSE <<>>

\* lines 23-75: ad_data before the length limit is applied
ad_data_full(device, advertisement_data) ==
    <<2, 1, 6>>
    \o name_element(device)
    \o Flatten([i \in 1..Len(advertisement_data.service_uuids) |->
                   uuid_element(advertisement_data.service_uuids[i])])
    \o Flatten([i \in 1..Len(advertisement_data.service_data) |->
                   service_data_element(advertisement_data.service_data[i][1],
                                        advertisement_data.service_data[i][2])])
    \o Flatten([i \in 1..Len(advertisement_data.manufacturer_data) |->
                   manufacturer_element(advertisement_data.manufacturer_data[i][1],
                                        advertisement_data.manufacturer_data[i][2])])

\* the slice taken one byte too long
truncate31_slice32(ad_data) == IF Len(ad_data) > 31 THEN Take(ad_data, 32) ELSE ad_data

\* lines 78-79
truncate31(ad_data) == IF Len(ad_data) > 31 THEN Take(ad_data, 31) ELSE ad_data

\* f'{b:X}'
RECURSIVE fmt_X(_)
fmt_X(b) == IF b < 16 THEN <<HexUpper[b + 1]>>
            ELSE fmt_X(b \div 16) \o <<HexUpper[(b % 16) + 1]>>

\* f'{b:02X}'
fmt_02X(b) == Rep("0", 2 - Len(fmt_X(b))) \o fmt_X(b)

\* ' '.join(parts)
RECURSIVE join_space(_)
join_space(parts) ==
    IF parts = <<>> THEN <<>>
    ELSE IF Len(parts) = 1 THEN parts[1]
    ELSE parts[1] \o <<" ">> \o join_space(Tail(parts))

\* "sudo hcitool -i hci0 cmd 0x08 0x0008 "
CmdPrefix ==
    <<"s","u","d","o"," ","h","c","i","t","o","o","l"," ","-","i"," ",
      "h","c","i","0"," ","c","m","d"," ","0","x","0","8"," ",
      "0","x","0","0","0","8"," ">>

\* the payload padded to 32 bytes
hci_command_pad32(ad_data) ==
    LET data_length == Len(ad_data)
        ad_data_padded == ad_data \o Rep(0, 32 - Len(ad_data))
        hci_params == <<fmt_02X(data_length)>>
                      \o [i \in 1..Len(ad_data_padded) |-> fmt_02X(ad_data_padded[i])]
    IN  CmdPrefix \o join_space(hci_params)

\* the length taken after the padding
hci_command_padded_length(ad_data) ==
    LET ad_data_padded == ad_data \o Rep(0, 31 - Len(ad_data))
        data_length == Len(ad_data_padded)
        hci_params == <<fmt_02X(data_length)>>
                      \o [i \in 1..Len(ad_data_padded) |-> fmt_02X(ad_data_padded[i])]
    IN  CmdPrefix \o join_space(hci_params)

\* lines 85-88
hci_command(ad_data) ==
    LET data_length == Len(ad_data)
        ad_data_padded == ad_data \o Rep(0, 31 - Len(ad_data))
        hci_params == <<fmt_02X(data_length)>>
                      \o [i \in 1..Len(ad_data_padded) |-> fmt_02X(ad_data_padded[i])]
    IN  CmdPrefix \o join_space(hci_params)

\* lines 11-93; now is datetime.now().strftime(...)
parse_advertisement_data(device, advertisement_data, now) ==
    LET ad_data == truncate31(ad_data_full(device, advertisement_data))
    IN  [timestamp |-> now,
         address   |-> device.address,
         name      |-> IF name_truthy(device.name) THEN device.name[1] ELSE Unknown,
         rssi      |-> advertisement_data.rssi,
         raw_data  |-> IF ad_data # <<>> THEN ad_data ELSE <<>>,
         hci_cmd   |-> IF ad_data # <<>> THEN hci_command(ad_data) ELSE <<>>]

\* the first index from i on where s is blank (want = TRUE) or is not
\* (want = FALSE); Len(s) + 1 when there is none
RECURSIVE scan(_, _, _)
scan(s, i, want) ==
    IF i > Len(s) THEN Len(s) + 1
    ELSE IF (s[i] = " ") = want THEN i
    ELSE scan(s, i + 1, want)

\* str.split() from index i on: the maximal runs of non-blank characters
RECURSIVE split_from(_, _)
split_from(s, i) ==
    LET b == scan(s, i, FALSE)
        e == scan(s, b, TRUE)
    IN  IF b > Len(s) THEN <<>>
        ELSE <<SubSeq(s, b, e - 1)>> \o split_from(s, e)

split(s) == split_from(s, 1)

----------------------------------------------------------------------------
(* Inputs *)

AddrA == "AA:BB:CC:DD:EE:FF"
AddrB == "11:22:33:44:55:66"

\* "Test"
NameTest == <<84, 101, 115, 116>>
\* 'A' * 29 + last: two names that agree on their first 29 bytes
NameLong(c) == Rep(65, 29) \o <<c>>

\* "0000180f-0000-1000-8000-00805f9b34fb"
Uuid180F ==
    <<"0","0","0","0","1","8","0","f","-","0","0","0","0","-","1","0","0","0","-",
      "8","0","0","0","-","0","0","8","0","5","f","9","b","3","4","f","b">>
\* "FEAA"
UuidShort == <<"F","E","A","A">>
\* "xyz": not a hexadecimal number
UuidBad == <<"x","y","z">>

\* (advertisement_data.rssi, datetime.now().strftime(...)) of an event
Readings == { <<0 - 42, "2024-01-01 00:00:00">>, <<0 - 70, "2024-01-01 00:00:01">> }

Device(address, name) == [address |-> address, name |-> name]
Adv(rssi, uuids, sdata, mdata) ==
    [rssi |-> rssi, service_uuids |-> uuids, service_data |-> sdata,
     manufacturer_data |-> mdata]

\* what the scanner reports during a session, rssi apart
Sightings ==
    { [device |-> Device(AddrA, <<NameTest>>), uuids |-> <<>>, sdata |-> <<>>, mdata |-> <<>>],
      [device |-> Device(AddrA, <<>>), uuids |-> <<Uuid180F, UuidBad>>, sdata |-> <<>>,
       mdata |-> << <<76, <<2, 21>>>> >>],
      [device |-> Device(AddrB, <<NameLong(66)>>), uuids |-> <<>>,
       sdata |-> << <<Uuid180F, <<100>>>> >>, mdata |-> <<>>],
      [device |-> Device(AddrB, <<NameLong(67)>>), uuids |-> <<>>,
       sdata |-> << <<Uuid180F, <<100>>>> >>, mdata |-> <<>>] }

AdvOf(s, rssi) == Adv(rssi, s.uuids, s.sdata, s.mdata)

\* the (target_names, target_addresses) arguments of a session
SessionArgs ==
    { <<<<>>, <<>>>>,
      <<<< <<NameTest, NameLong(66)>> >>, << <<AddrA>> >>>> }

\* the indices replay_packet is called with
ReplayIndices == (0 - 1)..MaxPackets

\* how the external process ends: exit status 0, another status, not started
RunOutcomes == {"Success", "ExecutionFailed", "LaunchError"}

NoObs == [device |-> Device("", <<>>), advertisement_data |-> Adv(0, <<>>, <<>>, <<>>)]

Effect(op, outcome, idx, argv) ==
    [op |-> op, outcome |-> outcome, idx |-> idx, argv |-> argv]

----------------------------------------------------------------------------
(* The capture store: scan_and_capture and its detection_callback *)

\* bool(x) of an optional list: None and [] are falsy
list_truthy(l) == l # <<>> /\ l[1] # <<>>

\* x in l
is_in(x, l) == \E i \in 1..Len(l) : l[i] = x

\* lines 102-105: TRUE when the callback returns before parsing
filtered_out(device, tnames, taddresses) ==
    \/ list_truthy(tnames)
       /\ ~(device.name # <<>> /\ is_in(device.name[1], tnames[1]))
    \/ list_truthy(taddresses) /\ ~is_in(device.address, taddresses[1])

\* lines 110-111: the first packet with the address and raw_data of packet; 0 is None
RECURSIVE find_from(_, _, _)
find_from(packets, packet, i) ==
    IF i > Len(packets) THEN 0
    ELSE IF packets[i].address = packet.address /\ packets[i].raw_data = packet.raw_data
         THEN i
    ELSE find_from(packets, packet, i + 1)

\* only the most recent packet is compared
find_existing_last_only(packets, packet) ==
    IF packets # <<>>
       /\ packets[Len(packets)].address = packet.address
       /\ packets[Len(packets)].raw_data = packet.raw_data
    THEN Len(packets) ELSE 0

find_existing(packets, packet) == find_from(packets, packet, 1)

\* the stored packet replaced by the new one
update_existing_replace(packets, i, packet) == [packets EXCEPT ![i] = packet]

\* lines 115-116
update_existing(packets, i, packet) ==
    [packets EXCEPT ![i].timestamp = packet.timestamp, ![i].rssi = packet.rssi]

\* the packet inserted at the front
append_packet_front(packets, packet) == <<packet>> \o packets

\* line 118
append_packet(packets, packet) == Append(packets, packet)

\* parse_advertisement_data is a pure function of its arguments that copies rssi
\* and the timestamp: its values on the sightings, evaluated once
ParseTable ==
    [k \in {<<s.device, AdvOf(s, 0)>> : s \in Sightings} |->
        parse_advertisement_data(k[1], k[2], "")]

\* parse_advertisement_data(device, advertisement_data, now), read from the table
parse_sighting(device, advertisement_data, now) ==
    [ParseTable[<<device, [advertisement_data EXCEPT !.rssi = 0]>>]
        EXCEPT !.rssi = advertisement_data.rssi, !.timestamp = now]

\* lines 100-119
detection_callback(device, advertisement_data, now) ==
    IF filtered_out(device, target_names, target_addresses) THEN
        /\ last' = Effect("detect", "filtered", 0 - 1, <<>>)
        /\ UNCHANGED captured_packets
    ELSE
        LET packet == parse_sighting(device, advertisement_data, now)
            existing == find_existing(captured_packets, packet)
        IN  IF existing # 0 THEN
                /\ captured_packets' = update_existing(captured_packets, existing, packet)
                /\ last' = Effect("detect", "updated", existing - 1, <<>>)
            ELSE
                /\ Len(captured_packets) < MaxPackets
                /\ captured_packets' = append_packet(captured_packets, packet)
                /\ last' = Effect("detect", "appended", Len(captured_packets), <<>>)

\* the list reset when a session starts
store_on_entry_reset(packets) == <<>>

\* lines 95-99: self.captured_packets as the call finds it; nothing resets it
store_on_entry(packets) == packets

\* lines 95-123: the call starts the scanner and sleeps

ScanEnter ==
    /\ pc \in {"idle", "done"}
    /\ \E args \in SessionArgs :
          /\ target_names' = args[1]
          /\ target_addresses' = args[2]
    /\ captured_packets' = store_on_entry(captured_packets)
    /\ scanning' = TRUE
    /\ pc' = "sleeping"
    /\ result' = "none"
    /\ last' = Effect("scan", "started", 0 - 1, <<>>)
    /\ UNCHANGED <<obs, packet_info>>

\* the scanner delivers one advertisement to the callback
Detect ==
    /\ scanning
    /\ \E s \in Sightings : \E r \in Readings :
          detection_callback(s.device, AdvOf(s, r[1]), r[2])
    /\ UNCHANGED <<scanning, pc, target_names, target_addresses, result,
                   obs, packet_info>>

\* lines 123-126: the sleep ends, the scanner is stopped, the list is returned
SleepDone ==
    /\ pc = "sleeping"
    /\ scanning' = FALSE
    /\ pc' = "done"
    /\ result' = "packets"
    /\ last' = Effect("scan", "returned", 0 - 1, <<>>)
    /\ UNCHANGED <<captured_packets, target_names, target_addresses,
                   obs, packet_info>>

\* line 123: the sleep is cancelled; the exception is raised inside the async with
Cancel ==
    /\ pc = "sleeping"
    /\ pc' = "cancelled"
    /\ last' = Effect("scan", "cancelled", 0 - 1, <<>>)
    /\ UNCHANGED <<captured_packets, scanning, target_names, target_addresses,
                   result, obs, packet_info>>

\* what the caller gets once the async with has been left on an exception:
\* nothing catches it, lines 125-126 are skipped
result_after_cancel == "CancelledError"

\* line 122: the async with stops the scanner and lets the exception through
Unwind ==
    /\ pc = "cancelled"
    /\ scanning' = FALSE
    /\ pc' = "done"
    /\ result' = result_after_cancel
    /\ last' = Effect("scan", "raised", 0 - 1, <<>>)
    /\ UNCHANGED <<captured_packets, target_names, target_addresses,
                   obs, packet_info>>

----------------------------------------------------------------------------
(* get_hci_commands and replay_packet *)

\* packets of unnamed devices left out
RECURSIVE get_hci_commands_named_only(_)
get_hci_commands_named_only(packets) ==
    IF packets = <<>> THEN <<>>
    ELSE (IF Head(packets).hci_cmd # <<>> /\ Head(packets).name # Unknown
          THEN <<[name |-> Head(packets).name, address |-> Head(packets).address,
                  command |-> Head(packets).hci_cmd]>>
          ELSE <<>>)
         \o get_hci_commands_named_only(Tail(packets))

\* lines 159-169
RECURSIVE get_hci_commands(_)
get_hci_commands(packets) ==
    IF packets = <<>> THEN <<>>
    ELSE (IF Head(packets).hci_cmd # <<>>
          THEN <<[name |-> Head(packets).name, address |-> Head(packets).address,
                  command |-> Head(packets).hci_cmd]>>
          ELSE <<>>)
         \o get_hci_commands(Tail(packets))

\* the lower bound left out
index_valid_no_lower_bound(index, n) == index < n

\* line 173
index_valid(index, n) == 0 <= index /\ index < n

\* l[index] is defined: a negative index counts from the end
py_index_ok(index, n) == 0 - n <= index /\ index < n

\* l[index]
py_get(l, index) == IF index >= 0 THEN l[index + 1] ELSE l[Len(l) + index + 1]

\* split() on the command strings of the sightings, evaluated once
SplitTable == [k \in DOMAIN ParseTable |-> split(ParseTable[k].hci_cmd)]

\* hci_cmd.split(), read from the table
split_stored(hci_cmd) ==
    SplitTable[CHOOSE k \in DOMAIN ParseTable : ParseTable[k].hci_cmd = hci_cmd]

\* lines 173-193: the message printed and the argv handed to subprocess.run
replay_effect(packets, index, run) ==
    IF index_valid(index, Len(packets)) THEN
        IF ~py_index_ok(index, Len(packets)) THEN
            Effect("replay", "IndexError", index, <<>>)
        ELSE IF py_get(packets, index).hci_cmd # <<>> THEN
            Effect("replay", run, index, split_stored(py_get(packets, index).hci_cmd))
        ELSE
            Effect("replay", "NoCommand", index, <<>>)
    ELSE
        Effect("replay", "IndexOutOfRange", 0 - 1, <<>>)

\* replay_packet is synchronous and is called between sessions (lines 201-234)
replay_packet(index, run) ==
    /\ pc \in {"idle", "done"}
    /\ last' = replay_effect(captured_packets, index, run)
    /\ UNCHANGED <<captured_packets, scanning, pc, target_names, target_addresses,
                   result, obs, packet_info>>

Replay == \E index \in ReplayIndices : \E run \in RunOutcomes : replay_packet(index, run)

----------------------------------------------------------------------------
(* The capture object *)

\* lines 7-9
Init ==
    /\ captured_packets = <<>>
    /\ scanning = FALSE
    /\ pc = "idle"
    /\ target_names = <<>>
    /\ target_addresses = <<>>
    /\ result = "none"
    /\ last = Effect("none", "none", 0 - 1, <<>>)
    /\ obs = NoObs
    /\ packet_info = <<>>

Next == ScanEnter \/ Detect \/ SleepDone \/ Cancel \/ Unwind \/ Replay

Spec == Init /\ [][Next]_vars

----------------------------------------------------------------------------
(* The encoder on its own: one observation, encoded once *)

\* None, '', 'A' * n, and two names of multi-byte characters: 15 two-byte ones
\* (30 bytes, cut inside the last one) and 10 three-byte ones (30 bytes)
EncNames ==
    {<<>>} \cup {<<Rep(65, n)>> : n \in 0..MaxNameLen}
           \cup {<<Rep(233, 15)>>, <<Rep(20013, 10)>>}

UuidCycle == <<Uuid180F, UuidShort, UuidBad>>

\* service_uuids: the first n strings of the cycle entered at any place
EncUuidLists ==
    { [i \in 1..n |-> UuidCycle[((start + i) % 3) + 1]] :
        start \in 0..2, n \in 0..MaxUuids }

\* service_data, in the dict's order: data of 28 bytes fits, of 29 does not
EncServiceData ==
    { <<>>,
      << <<Uuid180F, <<100>>>> >>,
      << <<UuidBad, <<1>>>>, <<Uuid180F, Rep(7, 29)>> >>,
      << <<Uuid180F, Rep(7, 28)>>, <<UuidShort, <<>>>> >> }

\* manufacturer_data, in the dict's order
EncManufacturerData ==
    { <<>>,
      << <<76, <<2, 21>>>> >>,
      << <<65535, Rep(9, 29)>>, <<76, Rep(255, 28)>> >> }

EncInputs ==
    { [device |-> Device(AddrA, n), advertisement_data |-> Adv(0 - 42, u, sd, md)] :
        n \in EncNames, u \in EncUuidLists, sd \in EncServiceData,
        md \in EncManufacturerData }

EncInit ==
    /\ captured_packets = <<>>
    /\ scanning = FALSE
    /\ pc = "idle"
    /\ target_names = <<>>
    /\ target_addresses = <<>>
    /\ result = "none"
    /\ last = Effect("none", "none", 0 - 1, <<>>)
    /\ obs \in EncInputs
    /\ packet_info = <<>>

\* line 107, outside a session
EncParse ==
    /\ packet_info = <<>>
    /\ \E r \in Readings :
          packet_info' = <<parse_advertisement_data(obs.device, obs.advertisement_data, r[2])>>
    /\ last' = Effect("parse", "returned", 0 - 1, <<>>)
    /\ UNCHANGED <<captured_packets, scanning, pc, target_names, target_addresses,
                   result, obs>>

EncNext == EncParse

EncSpec == EncInit /\ [][EncNext]_vars

----------------------------------------------------------------------------
(* Properties of the encoder and of the command generator *)

\* bytes is a concatenation of whole AD elements [length][type][length - 1 bytes]
RECURSIVE well_formed_ad(_)
well_formed_ad(bytes) ==
    IF bytes = <<>> THEN TRUE
    ELSE /\ bytes[1] >= 1
         /\ Len(bytes) >= 1 + bytes[1]
         /\ well_formed_ad(SubSeq(bytes, 2 + bytes[1], Len(bytes)))

FullOfObs == ad_data_full(obs.device, obs.advertisement_data)

\* C2: the encoded payload has at most 31 bytes and is the first min(31, n) bytes
\* of the n-byte concatenation of the emitted AD elements, each a whole
\* [length][type][payload] structure before the cut; when n > 31 it is exactly
\* the first 31 bytes.
C2_PayloadIsTruncatedConcatenation ==
    packet_info # <<>> =>
        \A full \in {FullOfObs} :
            /\ Len(packet_info[1].raw_data) <= 31
            /\ well_formed_ad(full)
            /\ packet_info[1].raw_data = SubSeq(full, 1, Min(31, Len(full)))
            /\ (Len(full) > 31 => Len(packet_info[1].raw_data) = 31)

\* an observation of more than 31 bytes was encoded, and the cut fell inside an element
C2_Witness ==
    /\ packet_info # <<>>
    /\ Len(FullOfObs) > 31
    /\ Len(packet_info[1].raw_data) = 31
    /\ ~well_formed_ad(packet_info[1].raw_data)

\* "0x0008"
Opcode2 == <<"0","x","0","0","0","8">>

\* the tokens after the opcode pair, given the tokens of a command string
after_opcode(tokens) == SubSeq(tokens, IndexOf(tokens, Opcode2, 1) + 1, Len(tokens))

\* the tokens of a command string after the opcode pair
params_of(cmd) == after_opcode(split(cmd))

\* a token of two upper-case hexadecimal digits
two_hex_digits(tok) ==
    Len(tok) = 2 /\ \A i \in 1..2 : IndexOf(HexUpper, tok[i], 1) > 0

\* the opcode pair is in its place and n two-hex-digit tokens follow it
opcode_then_tokens(cmd, n) ==
    \A tokens \in {split(cmd)} :
        /\ Len(tokens) >= 7
        /\ tokens[6] = <<"0","x","0","8">>
        /\ tokens[7] = Opcode2
        /\ Len(tokens) = 7 + n
        /\ \A i \in 8..Len(tokens) : two_hex_digits(tokens[i])

\* C3, as stated: every generated command has exactly 33 two-hex-digit tokens
\* after the opcode pair 0x08 0x0008.
C3_Original_33Tokens ==
    packet_info # <<>> => opcode_then_tokens(packet_info[1].hci_cmd, 33)

\* C3, amended: every generated command has exactly 32 two-hex-digit tokens
\* after the opcode pair 0x08 0x0008 (1 length + 31 data bytes), whatever the
\* payload length.
C3_Exactly32Tokens ==
    packet_info # <<>> => opcode_then_tokens(packet_info[1].hci_cmd, 32)

\* a payload of the 3 flag bytes alone got its full-width command
C3_Witness ==
    /\ packet_info # <<>>
    /\ Len(packet_info[1].raw_data) = 3
    /\ Len(params_of(packet_info[1].hci_cmd)) = 32

\* the value of a token of hexadecimal digits
token_value(tok) == hex_digits_value(tok, 0)

\* params are the value Len(P), the bytes of P in order, and zeros up to 31 bytes
length_payload_padding(params, P) ==
    /\ Len(P) <= 31
    /\ Len(params) = 32
    /\ token_value(params[1]) = Len(P)
    /\ \A i \in 1..Len(P) : token_value(params[1 + i]) = P[i]
    /\ \A i \in (Len(P) + 1)..31 : token_value(params[1 + i]) = 0

\* C4: for a non-empty payload P of length L the parameters after the opcode pair
\* are the value L, the L bytes of P in order (the stored raw payload), and
\* 31 - L zero bytes: 32 byte values in all.
C4_LengthPayloadPadding ==
    (packet_info # <<>> /\ packet_info[1].raw_data # <<>>) =>
        \A params \in {params_of(packet_info[1].hci_cmd)} :
            length_payload_padding(params, packet_info[1].raw_data)

\* a payload shorter than 31 bytes holding a byte above 0x9F was turned into a command
C4_Witness ==
    /\ packet_info # <<>>
    /\ Len(packet_info[1].raw_data) \in 4..30
    /\ \E i \in 1..Len(packet_info[1].raw_data) : packet_info[1].raw_data[i] = 255
    /\ token_value(params_of(packet_info[1].hci_cmd)[1]) = Len(packet_info[1].raw_data)

----------------------------------------------------------------------------
(* Properties of the capture store, the session and the replay executor *)

\* the encoded payload of a sighting
PayloadOf(s) == ParseTable[<<s.device, AdvOf(s, 0)>>].raw_data

\* the step is the detection callback run on sighting s with reading r
IsDetection(s, r) == scanning /\ detection_callback(s.device, AdvOf(s, r[1]), r[2])

\* entry p of the store has the address and the encoded payload of sighting s
SameKey(p, s) == p.address = s.device.address /\ p.raw_data = PayloadOf(s)

\* some entry of the store has the key of sighting s
Stored(s) == \E i \in 1..Len(captured_packets) : SameKey(captured_packets[i], s)

\* C1: when the address and the encoded payload of an observation equal those of
\* an entry already stored, the detection callback leaves the number of entries
\* and the address, name, raw payload and command string of every entry (so the
\* entry's index too) unchanged, changes nothing in any other entry, and, when it
\* records the observation, updates only rssi and timestamp of that entry.
C1_RepeatUpdatesInPlace ==
    [][\A s \in Sightings : \A r \in Readings :
          (IsDetection(s, r) /\ Stored(s)) =>
              /\ Len(captured_packets') = Len(captured_packets)
              /\ \A j \in 1..Len(captured_packets) :
                    /\ captured_packets'[j].address = captured_packets[j].address
                    /\ captured_packets'[j].name = captured_packets[j].name
                    /\ captured_packets'[j].raw_data = captured_packets[j].raw_data
                    /\ captured_packets'[j].hci_cmd = captured_packets[j].hci_cmd
                    /\ ~SameKey(captured_packets[j], s) =>
                          captured_packets'[j] = captured_packets[j]
                    /\ (SameKey(captured_packets[j], s)
                        /\ ~filtered_out(s.device, target_names, target_addresses)) =>
                          /\ captured_packets'[j].rssi = r[1]
                          /\ captured_packets'[j].timestamp = r[2]
      ]_vars

\* the first of two entries, of the device whose two names encode alike, was
\* updated in place by a repeat
C1_Witness ==
    /\ last.op = "detect" /\ last.outcome = "updated" /\ last.idx = 0
    /\ Len(captured_packets) >= 2
    /\ captured_packets[1].address = AddrB
    /\ captured_packets[1].rssi = 0 - 70
    /\ captured_packets[2].rssi = 0 - 42

\* C5: a cancelled session that had captured packets ends with scanning stopped
\* and the list of captured packets returned to its caller.
C5_CancelledSessionReturnsPackets ==
    (pc = "done" /\ last.outcome = "raised" /\ captured_packets # <<>>) =>
        (~scanning /\ result = "packets")

\* C6: replay with an index outside the store's bounds (negative, or >= the
\* number of packets, any index on the empty store) ends in IndexOutOfRange,
\* raises nothing, launches no command and leaves the store unchanged; replay
\* with an index within the bounds leaves the store unchanged too.
C6_ReplayOutOfRange ==
    [][\A index \in ReplayIndices : \A run \in RunOutcomes :
          replay_packet(index, run) =>
              /\ captured_packets' = captured_packets
              /\ (index < 0 \/ index >= Len(captured_packets)) =>
                    /\ last'.outcome = "IndexOutOfRange"
                    /\ last'.argv = <<>>
      ]_vars

\* a replay on a store of two packets ended in IndexOutOfRange
C6_Witness ==
    /\ last.op = "replay" /\ last.outcome = "IndexOutOfRange"
    /\ Len(captured_packets) = 2

\* the step enters a capture session
EntersSession == pc # "sleeping" /\ pc' = "sleeping"

\* C7, as stated: whenever a capture session starts, the store it captures into
\* is empty, a second call on the same capture object included.
C7_Original_StoreEmptyAtStart ==
    [][EntersSession => captured_packets' = <<>>]_vars

\* C7, amended: the store is created empty with the capture object and lives as
\* long as it: before the first session it is empty, and every session starts
\* with the store exactly as the previous one left it.
C7_StoreLivesWithObject ==
    /\ [](pc = "idle" => captured_packets = <<>>)
    /\ [][EntersSession => captured_packets' = captured_packets]_vars

\* a later session has just started on a store that holds packets
C7_Witness ==
    /\ pc = "sleeping" /\ last.outcome = "started"
    /\ captured_packets # <<>>

\* address, payload and command string of the entries, in order
Keys(packets) ==
    [i \in 1..Len(packets) |->
        <<packets[i].address, packets[i].raw_data, packets[i].hci_cmd>>]

\* every entry of the store before the step is at its place after it, and the
\* store has grown by n entries
GrowsBy(n) ==
    /\ Len(captured_packets') = Len(captured_packets) + n
    /\ SubSeq(Keys(captured_packets'), 1, Len(captured_packets)) = Keys(captured_packets)

\* C8, as stated: at every detection event the store before is a prefix of the
\* store after, and it grows by one entry, appended at the end, when the
\* observation's (address, payload) pair is novel, by none otherwise.
C8_Original_GrowsWhenNovel ==
    [][\A s \in Sightings : \A r \in Readings :
          IsDetection(s, r) =>
              IF Stored(s) THEN GrowsBy(0)
              ELSE /\ GrowsBy(1)
                   /\ SameKey(captured_packets'[Len(captured_packets')], s)
      ]_vars

\* C8, amended: at every detection event the store before is a prefix of the
\* store after, and it grows by one entry, appended at the end, when the
\* observation passes the session's name and address filters and its
\* (address, payload) pair is novel, by none otherwise.
C8_GrowsWhenAcceptedAndNovel ==
    [][\A s \in Sightings : \A r \in Readings :
          IsDetection(s, r) =>
              IF Stored(s) \/ filtered_out(s.device, target_names, target_addresses)
              THEN GrowsBy(0)
              ELSE /\ GrowsBy(1)
                   /\ SameKey(captured_packets'[Len(captured_packets')], s)
      ]_vars

\* a third packet was appended behind two stored ones
C8_Witness ==
    /\ last.op = "detect" /\ last.outcome = "appended" /\ last.idx = 2
    /\ Len(captured_packets) = 3

\* C9: no two distinct entries of the store have the same address and the same
\* encoded payload.
C9_NoDuplicateKey ==
    \A i \in 1..Len(captured_packets) : \A j \in 1..Len(captured_packets) :
        (i # j /\ captured_packets[i].address = captured_packets[j].address) =>
            captured_packets[i].raw_data # captured_packets[j].raw_data

\* two entries of one address are stored, and a repeat of a stored pair has just
\* been merged
C9_Witness ==
    /\ last.op = "detect" /\ last.outcome = "updated"
    /\ \E i \in 1..Len(captured_packets) : \E j \in 1..Len(captured_packets) :
          /\ i # j
          /\ captured_packets[i].address = captured_packets[j].address

\* C10: every stored packet has a payload that starts with the flag bytes
\* 02 01 06 and a non-empty command string; the command listing has the length
\* and the order of the store, its k-th item carrying name, address and command
\* of the entry replay_packet(k - 1) resolves; replay never ends in NoCommand.
C10_ListingMatchesStore ==
    /\ \A k \in 1..Len(captured_packets) :
          /\ Len(captured_packets[k].raw_data) >= 3
          /\ SubSeq(captured_packets[k].raw_data, 1, 3) = <<2, 1, 6>>
          /\ captured_packets[k].hci_cmd # <<>>
    /\ \A commands \in {get_hci_commands(captured_packets)} :
          /\ Len(commands) = Len(captured_packets)
          /\ \A k \in 1..Len(commands) :
                /\ index_valid(k - 1, Len(captured_packets))
                /\ commands[k].name = py_get(captured_packets, k - 1).name
                /\ commands[k].address = py_get(captured_packets, k - 1).address
                /\ commands[k].command = py_get(captured_packets, k - 1).hci_cmd
                /\ py_get(captured_packets, k - 1) = captured_packets[k]
    /\ last.outcome # "NoCommand"

\* the second item of a listing of three was replayed and its command launched
C10_Witness ==
    /\ Len(captured_packets) = 3
    /\ last.op = "replay" /\ last.outcome = "Success" /\ last.idx = 1
    /\ last.argv = split(get_hci_commands(captured_packets)[2].command)

====
